---------------------------- MODULE Spec2Model ----------------------------
(***************************************************************************)
(* Model of the Perplexity MCP server's response pipeline:                 *)
(*   - stripThinkContent (strip-think-content.ts), a pure string function; *)
(*   - performChatCompletion (perplexity-client.ts), the handler that      *)
(*     issues the request and assembles the answer;                        *)
(*   - the lookup and answer tool callbacks that call it.                  *)
(* A JavaScript string is a sequence of one-character strings, so that     *)
(* indexOf, lastIndexOf, slice and trim work on characters as they do in   *)
(* the program.                                                            *)
(***************************************************************************)
EXTENDS Integers, Sequences, FiniteSets, TLC

VARIABLES
    input,      \* argument of a direct call of stripThinkContent
    output,     \* value that call returned
    called,     \* whether the direct call has returned
    again,      \* what a second call, on output, returned, as a 0- or 1-element sequence
    env,        \* process.env.PERPLEXITY_API_KEY: [set, val]
    pc,         \* where the invocation of performChatCompletion stands
    tool,       \* the caller: "lookup", "answer", or "direct" (a script or test)
    messages,   \* argument messages of performChatCompletion
    options,    \* argument options of performChatCompletion
    requests,   \* the calls of fetch made so far, in order
    response,   \* the Response fetch resolved with, as a 0- or 1-element sequence
    json,       \* the value response.json() resolved with, likewise
    result,     \* the string performChatCompletion returned (pc = "returned")
    error,      \* the Error it threw (pc = "thrown"), as a 0- or 1-element sequence
    steps,      \* the pipeline steps this invocation has run, in order
    rejection,  \* the rejected await, if any: [op, reason], as a 0- or 1-element sequence
    bodyText,   \* the text response.text() resolved with, likewise
    rendered,   \* messageContent after the Sources section is appended, before trim
    toolArg,    \* the query / question argument of the tool call, as a 0- or 1-element sequence
    toolOutput, \* what the tool callback returned, as a 0- or 1-element sequence
    argv,       \* process.argv after "node index.ts"
    cliPc,      \* where the entry point index.ts stands
    exitCode,   \* the argument of process.exit, as a 0- or 1-element sequence
    console     \* the console.log and console.error calls so far, in order

stripVars == <<input, output, called, again>>

clientVars ==
    <<env, pc, tool, messages, options, requests, response, json, result,
      error, steps, rejection, bodyText, rendered, toolArg, toolOutput>>

cliVars == <<argv, cliPc, exitCode, console>>

vars == <<stripVars, clientVars, cliVars>>

(***************************************************************************)
(* Bounds of the model.                                                    *)
(***************************************************************************)
\* longest input of the direct stripThinkContent calls, in chunks
MaxChunks == 4

\* longest message content of an upstream response, in chunks
MaxContentChunks == 2

\* most source records in search_results
MaxSources == 2

\* most command-line arguments
MaxArgs == 3

(***************************************************************************)
(* Characters and the two markers (strip-think-content.ts, lines 17-18).   *)
(***************************************************************************)
open == <<"<", "t", "h", "i", "n", "k", ">">>

close == <<"<", "/", "t", "h", "i", "n", "k", ">">>

(***************************************************************************)
(* String.prototype helpers, computed by scanning as the runtime does.     *)
(* Indices are 0-based as in JavaScript; -1 means "not found".             *)
(***************************************************************************)
\* does marker m start at 0-based index i of s
IsAt(s, m, i) ==
    /\ i >= 0
    /\ i + Len(m) <= Len(s)
    /\ \A k \in 1..Len(m) : s[i + k] = m[k]

RECURSIVE indexOfFrom(_, _, _)
indexOfFrom(s, m, i) ==
    IF i + Len(m) > Len(s) THEN -1
    ELSE IF IsAt(s, m, i) THEN i
    ELSE indexOfFrom(s, m, i + 1)

indexOf(s, m) == indexOfFrom(s, m, 0)

RECURSIVE lastIndexOfFrom(_, _, _)
lastIndexOfFrom(s, m, i) ==
    IF i < 0 THEN -1
    ELSE IF IsAt(s, m, i) THEN i
    ELSE lastIndexOfFrom(s, m, i - 1)

lastIndexOf(s, m) == lastIndexOfFrom(s, m, Len(s) - Len(m))

\* s.slice(a, b) for 0 <= a and 0 <= b
slice(s, a, b) == SubSeq(s, a + 1, IF b > Len(s) THEN Len(s) ELSE b)

\* s.slice(a)
sliceFrom(s, a) == SubSeq(s, a + 1, Len(s))

(***************************************************************************)
(* Mutants of stripThinkContent (plausible slips in its code).             *)
(***************************************************************************)
\* cuts up to the FIRST end marker after the start marker instead of the last
stripThinkContent_firstClose(s) ==
    LET firstOpen == indexOf(s, open)
        firstClose == indexOf(s, close)
    IN  IF firstOpen = -1 THEN s
        ELSE IF firstClose = -1 \/ firstClose < firstOpen THEN s
        ELSE slice(s, 0, firstOpen) \o sliceFrom(s, firstClose + Len(close))

\* forgets the early return for "no start marker": cuts from the beginning
stripThinkContent_noOpenCheck(s) ==
    LET firstOpen == indexOf(s, open)
        lastClose == lastIndexOf(s, close)
    IN  IF lastClose = -1 THEN s
        ELSE slice(s, 0, IF firstOpen = -1 THEN 0 ELSE firstOpen)
                 \o sliceFrom(s, lastClose + Len(close))

\* tests only lastClose === -1 and forgets lastClose < firstOpen
stripThinkContent_noOrderCheck(s) ==
    LET firstOpen == indexOf(s, open)
        lastClose == lastIndexOf(s, close)
    IN  IF firstOpen = -1 THEN s
        ELSE IF lastClose = -1 THEN s
        ELSE slice(s, 0, firstOpen) \o sliceFrom(s, lastClose + Len(close))

\* keeps the end marker: end = lastClose instead of lastClose + close.length
stripThinkContent_keepsClose(s) ==
    LET firstOpen == indexOf(s, open)
        lastClose == lastIndexOf(s, close)
    IN  IF firstOpen = -1 THEN s
        ELSE IF lastClose = -1 \/ lastClose < firstOpen THEN s
        ELSE slice(s, 0, firstOpen) \o sliceFrom(s, lastClose)

\* starts the cut at the LAST start marker instead of the first
stripThinkContent_lastOpen(s) ==
    LET lastOpen == lastIndexOf(s, open)
        lastClose == lastIndexOf(s, close)
    IN  IF lastOpen = -1 THEN s
        ELSE IF lastClose = -1 \/ lastClose < lastOpen THEN s
        ELSE slice(s, 0, lastOpen) \o sliceFrom(s, lastClose + Len(close))

(***************************************************************************)
(* stripThinkContent (strip-think-content.ts, lines 16-28).                *)
(***************************************************************************)
stripThinkContent(s) ==
    LET firstOpen == indexOf(s, open)
        lastClose == lastIndexOf(s, close)
        end == lastClose + Len(close)
    IN  IF firstOpen = -1 THEN s
        ELSE IF lastClose = -1 \/ lastClose < firstOpen THEN s
        ELSE slice(s, 0, firstOpen) \o sliceFrom(s, end)

(***************************************************************************)
(* Inputs of the direct calls: every concatenation of at most MaxChunks    *)
(* chunks (markers, marker fragments, plain text), and the inputs of the   *)
(* unit tests and of the doc comment.                                      *)
(***************************************************************************)
Chunks ==
    { open, close, <<"A">>, <<" ">>,
      <<"<", "t", "h">>, <<"i", "n", "k", ">">>, <<"<", "/", "t", "h">> }

RECURSIVE Concats(_, _)
Concats(C, n) ==
    IF n = 0 THEN { <<>> }
    ELSE LET P == Concats(C, n - 1)
         IN  P \cup { p \o c : p \in P, c \in C }

\* "Before "
BeforeSp == <<"B", "e", "f", "o", "r", "e", " ">>

\* " After"
SpAfter == <<" ", "A", "f", "t", "e", "r">>

\* "reasoning content"
ReasoningContent ==
    <<"r", "e", "a", "s", "o", "n", "i", "n", "g", " ",
      "c", "o", "n", "t", "e", "n", "t">>

\* "Before <think>reasoning content</think> After" (test, line 7)
SimpleBlockInput == BeforeSp \o open \o ReasoningContent \o close \o SpAfter

\* "A <think>1</think> B <think>2</think> C" (doc comment, line 8)
MultiBlockInput ==
    <<"A", " ">> \o open \o <<"1">> \o close \o <<" ", "B", " ">>
        \o open \o <<"2">> \o close \o <<" ", "C">>

\* "Before <think>foo<think></think> After" (test, line 127)
ExtraOpenInput ==
    BeforeSp \o open \o <<"f", "o", "o">> \o open \o close \o SpAfter

\* "Start <think></think>foo</think> End" (test, line 119)
ExtraCloseInput ==
    <<"S", "t", "a", "r", "t", " ">> \o open \o close \o <<"f", "o", "o">>
        \o close \o <<" ", "E", "n", "d">>

\* "Before <think>unclosed content After" (test, line 134)
UnmatchedOpenInput ==
    BeforeSp \o open \o <<"u", "n", "c", "l", "o", "s", "e", "d", " ">>
        \o <<"c", "o", "n", "t", "e", "n", "t">> \o SpAfter

\* "Before unopened content</think> After" (test, line 142)
UnmatchedCloseInput ==
    BeforeSp \o <<"u", "n", "o", "p", "e", "n", "e", "d", " ">>
        \o <<"c", "o", "n", "t", "e", "n", "t">> \o close \o SpAfter

TestInputs ==
    { SimpleBlockInput, MultiBlockInput, ExtraOpenInput, ExtraCloseInput,
      UnmatchedOpenInput, UnmatchedCloseInput }

StripInputs == Concats(Chunks, MaxChunks) \cup TestInputs

(***************************************************************************)
(* More String.prototype helpers used by performChatCompletion.            *)
(***************************************************************************)
\* the white space String.prototype.trim removes, as far as the model's
\* alphabet has it
WhiteSpace == { " ", "\n", "\t", "\r" }

RECURSIVE trimStart(_)
trimStart(s) ==
    IF s = <<>> THEN s
    ELSE IF Head(s) \in WhiteSpace THEN trimStart(Tail(s))
    ELSE s

RECURSIVE trimEnd(_)
trimEnd(s) ==
    IF s = <<>> THEN s
    ELSE IF s[Len(s)] \in WhiteSpace THEN trimEnd(SubSeq(s, 1, Len(s) - 1))
    ELSE s

\* forgets the leading white space
trim_endOnly(s) == trimEnd(s)

\* s.trim()
trim(s) == trimEnd(trimStart(s))

\* the decimal digits of a template literal's ${n}, n >= 0
DigitChars == <<"0", "1", "2", "3", "4", "5", "6", "7", "8", "9">>

RECURSIVE Digits(_)
Digits(n) ==
    IF n < 10 THEN << DigitChars[n + 1] >>
    ELSE Digits(n \div 10) \o << DigitChars[(n % 10) + 1] >>

\* lines.join(sep)
RECURSIVE join(_, _)
join(lines, sep) ==
    IF lines = <<>> THEN <<>>
    ELSE IF Len(lines) = 1 THEN lines[1]
    ELSE lines[1] \o sep \o join(Tail(lines), sep)

(***************************************************************************)
(* Decoded JSON values, tagged by their JavaScript type.                   *)
(***************************************************************************)
JStr(s) == [t |-> "string", v |-> s]

JNum(n) == [t |-> "number", v |-> n]

JNull == [t |-> "null"]

JArr(elems) == [t |-> "array", e |-> elems]

JObj(fields) == [t |-> "object", f |-> fields]

\* the object j has the key k
Has(j, k) == k \in DOMAIN j.f

(***************************************************************************)
(* The zod schemas (schemas.ts): z.object accepts an object and checks     *)
(* the listed keys, .optional() accepts an absent key, z.string() accepts  *)
(* a string only, z.array(X) an array whose elements all satisfy X.        *)
(***************************************************************************)
SearchResultOk(j) ==
    /\ j.t = "object"
    /\ Has(j, "title") /\ j.f["title"].t = "string"
    /\ Has(j, "url") /\ j.f["url"].t = "string"
    /\ Has(j, "date") => j.f["date"].t = "string"
    /\ Has(j, "last_updated") => j.f["last_updated"].t = "string"

SearchResultsOk(j) ==
    /\ j.t = "array"
    /\ \A i \in 1..Len(j.e) : SearchResultOk(j.e[i])

MessageOk(j) ==
    /\ j.t = "object"
    /\ Has(j, "content") => j.f["content"].t = "string"

ChoiceOk(j) ==
    /\ j.t = "object"
    /\ Has(j, "message") => MessageOk(j.f["message"])

PerplexityResponseOk(j) ==
    /\ j.t = "object"
    /\ Has(j, "choices") =>
           /\ j.f["choices"].t = "array"
           /\ \A i \in 1..Len(j.f["choices"].e) : ChoiceOk(j.f["choices"].e[i])
    /\ Has(j, "search_results") => SearchResultsOk(j.f["search_results"])

\* a schema that drops an invalid search_results instead of failing
safeParse_dropsBadSources(j) ==
    LET without ==
            IF j.t = "object"
            THEN JObj([k \in DOMAIN j.f \ { "search_results" } |-> j.f[k]])
            ELSE j
    IN  IF PerplexityResponseOk(without)
        THEN [success |-> TRUE,
              data |-> IF PerplexityResponseOk(j) THEN j ELSE without]
        ELSE [success |-> FALSE, data |-> JNull]

\* PerplexityResponse.safeParse(j): never throws
safeParse(j) ==
    IF PerplexityResponseOk(j)
    THEN [success |-> TRUE, data |-> j]
    ELSE [success |-> FALSE, data |-> JNull]

(***************************************************************************)
(* Answer assembly (perplexity-client.ts, lines 71-102).                   *)
(***************************************************************************)
\* the character U+2014 (em dash) of the citation template
EmDash == "U+2014"

\* "\n\nSources:\n"
SourcesHeader ==
    <<"\n", "\n", "S", "o", "u", "r", "c", "e", "s", ":", "\n">>

\* parsedResponse.data.choices?.[0]?.message?.content ?? ""
firstContent(data) ==
    IF ~Has(data, "choices") THEN <<>>
    ELSE IF Len(data.f["choices"].e) = 0 THEN <<>>
    ELSE IF ~Has(data.f["choices"].e[1], "message") THEN <<>>
    ELSE IF ~Has(data.f["choices"].e[1].f["message"], "content") THEN <<>>
    ELSE data.f["choices"].e[1].f["message"].f["content"].v

\* falls back to last_updated when there is no date
dateSuffix_lastUpdated(sr) ==
    IF Has(sr, "date") /\ sr.f["date"].v # <<>>
    THEN <<" ", "(">> \o sr.f["date"].v \o <<")">>
    ELSE IF Has(sr, "last_updated")
    THEN <<" ", "(">> \o sr.f["last_updated"].v \o <<")">>
    ELSE <<>>

\* sr.date ? ` (${sr.date})` : "": an absent or empty date gives no suffix
dateSuffix(sr) ==
    IF Has(sr, "date") /\ sr.f["date"].v # <<>>
    THEN <<" ", "(">> \o sr.f["date"].v \o <<")">>
    ELSE <<>>

\* numbers the lines from 0
citationLine_zeroBased(sr, index) ==
    <<"[">> \o Digits(index) \o <<"]", " ">> \o sr.f["title"].v
        \o <<" ", EmDash, " ">> \o sr.f["url"].v \o dateSuffix(sr)

\* `[${index_}] ${sr.title} - ${sr.url}${dateSuffix}`, index_ = index + 1
citationLine(sr, index) ==
    LET index_ == index + 1
    IN  <<"[">> \o Digits(index_) \o <<"]", " ">> \o sr.f["title"].v
            \o <<" ", EmDash, " ">> \o sr.f["url"].v \o dateSuffix(sr)

\* results.map((sr, index) => ...)
citationLines(results) ==
    [i \in 1..Len(results) |-> citationLine(results[i], i - 1)]

\* lines 84-94: the text with the Sources section appended
withSources(messageContent, parsedResponse) ==
    IF parsedResponse.success /\ Has(parsedResponse.data, "search_results")
    THEN LET results == parsedResponse.data.f["search_results"].e
         IN  IF Len(results) > 0
             THEN messageContent \o SourcesHeader
                      \o join(citationLines(results), <<"\n">>)
             ELSE messageContent
    ELSE messageContent

\* lines 73-75: the message content, "" when validation failed
contentOf(parsedResponse) ==
    IF parsedResponse.success THEN firstContent(parsedResponse.data) ELSE <<>>

\* applies the stripper after the Sources section is appended
combine_stripsLast(j) ==
    LET parsedResponse == safeParse(j)
    IN  stripThinkContent(withSources(contentOf(parsedResponse), parsedResponse))

\* lines 71-94: validate, take the content, strip it, append the sources
combine(j) ==
    LET parsedResponse == safeParse(j)
        stripped == stripThinkContent(contentOf(parsedResponse))
    IN  withSources(stripped, parsedResponse)

\* skips the stripper
assemble_noStrip(j) ==
    LET parsedResponse == safeParse(j)
    IN  trim(withSources(contentOf(parsedResponse), parsedResponse)) \o <<"\n">>

\* forgets the trim
assemble_noTrim(j) == combine(j) \o <<"\n">>

\* lines 96-102: trimmed, with one trailing newline
assemble(j) == trim(combine(j)) \o <<"\n">>

(***************************************************************************)
(* What the environment can supply: the credential, tool arguments, the    *)
(* outcomes of fetch, response.text() and response.json().                 *)
(***************************************************************************)
\* process.env.PERPLEXITY_API_KEY: unset, set to "", set to a key
Envs ==
    { [set |-> FALSE, val |-> ""],
      [set |-> TRUE, val |-> ""],
      [set |-> TRUE, val |-> "pplx-key"] }

\* !apiKey: undefined and "" are both falsy
NoApiKey(e) == ~e.set \/ e.val = ""

\* the system prompts of prompts.ts, by name
LOOKUP_SYSTEM_PROMPT == "LOOKUP_SYSTEM_PROMPT"

ANSWER_SYSTEM_PROMPT == "ANSWER_SYSTEM_PROMPT"

\* the free-text parameter of a tool call
Queries == { "default timeout of fetch()", "Zod or Valibot?" }

\* arguments of a call that does not come from a tool
DirectMessages ==
    { <<>>,
      << [role |-> "user", content |-> "first"],
         [role |-> "assistant", content |-> "second"],
         [role |-> "user", content |-> "third"] >> }

DirectOptions ==
    { [model |-> "sonar", system |-> "be brief", searchContextSize |-> "low"] }

\* what fetch can reject with: an Error, or a value that is not an Error
FetchFailures ==
    { [isError |-> TRUE, text |-> "fetch failed"],
      [isError |-> FALSE, text |-> "ETIMEDOUT"] }

\* what response.json() can reject with
JsonFailures ==
    { [isError |-> TRUE, text |-> "Unexpected token < in JSON at position 0"],
      [isError |-> FALSE, text |-> "body stream already read"] }

\* what response.text() can reject with
TextFailures == { [isError |-> TRUE, text |-> "terminated"] }

\* status line of the Response
ResponseHeads ==
    { [status |-> 200, statusText |-> "OK"],
      [status |-> 201, statusText |-> "Created"],
      [status |-> 401, statusText |-> "Unauthorized"],
      [status |-> 429, statusText |-> "Too Many Requests"],
      [status |-> 500, statusText |-> ""] }

\* Response.ok: the status is in the range 200-299
ok(head) == head.status \in 200..299

\* body text of an error response
ErrorTexts == { "", "{\"error\":\"rate limited\"}", "<html>Bad Gateway</html>" }

\* "<think>x</think>Answer"
ExampleContent == open \o <<"x">> \o close \o <<"A", "n", "s", "w", "e", "r">>

\* " <think>a</think> Answer <think>b</think>\n"
PaddedContent ==
    <<" ">> \o open \o <<"a">> \o close
        \o <<" ", "A", "n", "s", "w", "e", "r", " ">>
        \o open \o <<"b">> \o close \o <<"\n">>

ContentChunks == { open, close, <<"x">>, <<" ">>, <<"\n">> }

Contents ==
    Concats(ContentChunks, MaxContentChunks) \cup { ExampleContent, PaddedContent }

\* the contents combined with every list of sources
ContentsWithSources == { <<>>, ExampleContent, open \o <<"x">> }

HttpA == <<"h", "t", "t", "p", ":", "/", "/", "a">>

SrcA == JObj([title |-> JStr(<<"A">>), url |-> JStr(HttpA)])

SrcDated ==
    JObj([title |-> JStr(<<"T">>), url |-> JStr(<<"U">>),
          date |-> JStr(<<"2", "0", "2", "4">>)])

SrcEmptyDate ==
    JObj([title |-> JStr(<<"T">>), url |-> JStr(<<"U">>), date |-> JStr(<<>>)])

SrcUpdated ==
    JObj([title |-> JStr(<<"T">>), url |-> JStr(<<"U">>),
          last_updated |-> JStr(<<"2", "0", "2", "5">>)])

SrcMarkers == JObj([title |-> JStr(open), url |-> JStr(close)])

SrcSpaced == JObj([title |-> JStr(<<" ", "T">>), url |-> JStr(<<"U", " ">>)])

SrcNoTitle == JObj([url |-> JStr(<<"U">>)])

SrcNumUrl == JObj([title |-> JStr(<<"T">>), url |-> JNum(5)])

SrcNullDate ==
    JObj([title |-> JStr(<<"T">>), url |-> JStr(<<"U">>), date |-> JNull])

ValidSources ==
    { SrcA, SrcDated, SrcEmptyDate, SrcUpdated, SrcMarkers, SrcSpaced }

InvalidSources == { SrcNoTitle, SrcNumUrl, SrcNullDate }

RECURSIVE SeqsUpTo(_, _)
SeqsUpTo(S, n) ==
    IF n = 0 THEN { <<>> }
    ELSE LET P == SeqsUpTo(S, n - 1)
         IN  P \cup { Append(p, x) : p \in P, x \in S }

SourceLists == SeqsUpTo(ValidSources \cup InvalidSources, MaxSources)

Choice(c) == JObj([message |-> JObj([content |-> JStr(c)])])

\* decoded bodies of the expected shape, some fields absent
ShapedBodies ==
    { JObj([choices |-> JArr(<< Choice(c) >>)]) : c \in Contents }
      \cup { JObj([choices |-> JArr(<< Choice(c) >>), search_results |-> JArr(l)]) :
                 c \in ContentsWithSources, l \in SourceLists }
      \cup { JObj([search_results |-> JArr(l)]) : l \in SourceLists }
      \cup { JObj(<<>>),
             JObj([choices |-> JArr(<<>>)]),
             JObj([choices |-> JArr(<< JObj(<<>>) >>)]),
             JObj([choices |-> JArr(<< JObj([message |-> JObj(<<>>)]) >>)]),
             JObj([choices |-> JArr(<< Choice(<<"x">>), Choice(ExampleContent) >>)]),
             JObj([id |-> JStr(<<"x">>), choices |-> JArr(<< Choice(<<"x">>) >>)]) }

\* decoded bodies of another shape
MisshapedBodies ==
    { JNull, JNum(5), JStr(ExampleContent), JArr(<< Choice(ExampleContent) >>),
      JObj([choices |-> JStr(ExampleContent)]),
      JObj([choices |-> JArr(<< JNull >>)]),
      JObj([choices |-> JArr(<< JObj([message |-> JStr(ExampleContent)]) >>)]),
      JObj([choices |-> JArr(<< JObj([message |-> JObj([content |-> JNum(5)])]) >>)]),
      JObj([choices |-> JArr(<< Choice(ExampleContent) >>), search_results |-> JNull]),
      JObj([choices |-> JArr(<< Choice(ExampleContent) >>),
            search_results |-> JObj([title |-> JStr(<<"T">>), url |-> JStr(<<"U">>)])]) }

Bodies == ShapedBodies \cup MisshapedBodies

(***************************************************************************)
(* The errors performChatCompletion throws: the message as the pieces of   *)
(* its template literal, and the cause option when given.                  *)
(***************************************************************************)
ConfigErrorText ==
    "PERPLEXITY_API_KEY is not set. Please export it before calling performChatCompletion()."

NetworkErrorPrefix == "Network error while calling Perplexity API: "

StatusErrorPrefix == "Perplexity API error: "

ParseErrorPrefix == "Failed to parse JSON response from Perplexity API: "

UnreadableBodyText == "Unable to parse error response"

\* error instanceof Error ? error.message : String(error)
messageOf(e) == e.text

ConfigError == [message |-> << ConfigErrorText >>, cause |-> <<>>]

NetworkError(e) ==
    [message |-> << NetworkErrorPrefix, messageOf(e) >>, cause |-> << e >>]

\* drops the response body from the message
StatusError_noBody(head, errorText) ==
    [message |-> << StatusErrorPrefix, ToString(head.status), " ", head.statusText >>,
     cause |-> <<>>]

StatusError(head, errorText) ==
    [message |->
        << StatusErrorPrefix, ToString(head.status), " ", head.statusText,
           "\n", errorText >>,
     cause |-> <<>>]

JsonParseError(e) ==
    [message |-> << ParseErrorPrefix, messageOf(e) >>, cause |-> << e >>]

\* appends the system message instead of prepending it
requestBody_systemLast(msgs, opts) ==
    [model |-> opts.model,
     messages |-> msgs \o << [role |-> "system", content |-> opts.system] >>,
     web_search_options |-> [search_context_size |-> opts.searchContextSize]]

\* the body of the POST request (lines 24-28)
requestBody(msgs, opts) ==
    [model |-> opts.model,
     messages |-> << [role |-> "system", content |-> opts.system] >> \o msgs,
     web_search_options |-> [search_context_size |-> opts.searchContextSize]]

\* the arguments of fetch (lines 32-39)
fetchCall(apiKey, msgs, opts) ==
    [url |-> "https://api.perplexity.ai/chat/completions",
     method |-> "POST",
     contentType |-> "application/json",
     authorization |-> << "Bearer ", apiKey >>,
     body |-> requestBody(msgs, opts)]

(***************************************************************************)
(* performChatCompletion (perplexity-client.ts, lines 13-103), one action  *)
(* per stretch of code between two awaits.                                 *)
(***************************************************************************)
\* lines 17-39 without the credential check
performChatCompletion_noKeyCheck(t, msgs, opts) ==
    /\ pc = "idle"
    /\ tool' = t
    /\ messages' = msgs
    /\ options' = opts
    /\ requests' = Append(requests, fetchCall(env.val, msgs, opts))
    /\ steps' = steps \o << "credential", "fetch" >>
    /\ pc' = "fetching"
    /\ UNCHANGED <<env, rendered, rejection, bodyText, response, json, result, error, toolOutput, stripVars, cliVars>>

\* lines 17-39: the credential check, the request, the call of fetch
performChatCompletion(t, msgs, opts) ==
    /\ pc = "idle"
    /\ tool' = t
    /\ messages' = msgs
    /\ options' = opts
    /\ IF NoApiKey(env)
       THEN /\ error' = << ConfigError >>
            /\ steps' = Append(steps, "credential")
            /\ pc' = "thrown"
            /\ UNCHANGED requests
       ELSE /\ requests' = Append(requests, fetchCall(env.val, msgs, opts))
            /\ steps' = steps \o << "credential", "fetch" >>
            /\ pc' = "fetching"
            /\ UNCHANGED error
    /\ UNCHANGED <<env, rendered, rejection, bodyText, response, json, result, toolOutput, stripVars, cliVars>>

\* the lookup tool calling with the answer tool's configuration
LookupTool_answerConfig(query) ==
    /\ toolArg' = << query >>
    /\ performChatCompletion(
           "lookup",
           << [role |-> "user", content |-> query] >>,
           [model |-> "sonar-reasoning-pro", system |-> ANSWER_SYSTEM_PROMPT,
            searchContextSize |-> "high"])

\* the lookup tool's callback (tools/lookup.ts, lines 25-35)
LookupTool(query) ==
    /\ toolArg' = << query >>
    /\ performChatCompletion(
           "lookup",
           << [role |-> "user", content |-> query] >>,
           [model |-> "sonar-pro", system |-> LOOKUP_SYSTEM_PROMPT,
            searchContextSize |-> "medium"])

\* the answer tool's callback (tools/answer.ts, lines 25-35)
AnswerTool(question) ==
    /\ toolArg' = << question >>
    /\ performChatCompletion(
           "answer",
           << [role |-> "user", content |-> question] >>,
           [model |-> "sonar-reasoning-pro", system |-> ANSWER_SYSTEM_PROMPT,
            searchContextSize |-> "high"])

\* a call from a script or a test
DirectCall(msgs, opts) ==
    /\ toolArg' = <<>>
    /\ performChatCompletion("direct", msgs, opts)

\* swallows the failure and goes on to read the body
FetchRejects_swallowed(e) ==
    /\ pc = "fetching"
    /\ steps' = steps \o << "status", "json" >>
    /\ pc' = "readingJson"
    /\ rejection' = << [op |-> "fetch", reason |-> e] >>
    /\ UNCHANGED <<env, rendered, toolArg, bodyText, tool, messages, options, requests, response, json,
                   result, error, toolOutput, stripVars, cliVars>>

\* retries the request once before giving up
FetchRejects_retriesOnce(e) ==
    /\ pc = "fetching"
    /\ IF Len(requests) < 2
       THEN /\ requests' = Append(requests, requests[1])
            /\ steps' = Append(steps, "fetch")
            /\ UNCHANGED <<pc, error, rejection>>
       ELSE /\ error' = << NetworkError(e) >>
            /\ pc' = "thrown"
            /\ rejection' = << [op |-> "fetch", reason |-> e] >>
            /\ UNCHANGED <<requests, steps>>
    /\ UNCHANGED <<env, rendered, toolArg, bodyText, tool, messages, options,
                   response, json, result, toolOutput, stripVars, cliVars>>

\* lines 40-45: fetch rejected
FetchRejects(e) ==
    /\ pc = "fetching"
    /\ error' = << NetworkError(e) >>
    /\ pc' = "thrown"
    /\ rejection' = << [op |-> "fetch", reason |-> e] >>
    /\ UNCHANGED <<env, rendered, toolArg, bodyText, tool, messages, options, requests, response, json,
                   result, steps, toolOutput, stripVars, cliVars>>

\* decodes the body as JSON before looking at the status
FetchResolves_decodesFirst(head) ==
    /\ pc = "fetching"
    /\ response' = << head >>
    /\ steps' = steps \o << "status", "json" >>
    /\ pc' = "readingJson"
    /\ UNCHANGED <<env, rendered, toolArg, rejection, bodyText, tool, messages, options, requests, json, result, error,
                   toolOutput, stripVars, cliVars>>

\* lines 47-50 and 59-61: fetch resolved; the status decides which body read follows
FetchResolves(head) ==
    /\ pc = "fetching"
    /\ response' = << head >>
    /\ IF ~ok(head)
       THEN /\ steps' = steps \o << "status", "text" >>
            /\ pc' = "readingText"
       ELSE /\ steps' = steps \o << "status", "json" >>
            /\ pc' = "readingJson"
    /\ UNCHANGED <<env, rendered, toolArg, rejection, bodyText, tool, messages, options, requests, json, result, error,
                   toolOutput, stripVars, cliVars>>

\* lines 50 and 54-56: response.text() resolved
TextResolves(errorText) ==
    /\ pc = "readingText"
    /\ error' = << StatusError(response[1], errorText) >>
    /\ pc' = "thrown"
    /\ bodyText' = << errorText >>
    /\ UNCHANGED <<env, rendered, toolArg, rejection, tool, messages, options, requests, response, json,
                   result, steps, toolOutput, stripVars, cliVars>>

\* lets the failure of response.text() escape
TextRejects_escapes(e) ==
    /\ pc = "readingText"
    /\ error' = << [message |-> << "terminated" >>, cause |-> <<>>] >>
    /\ pc' = "thrown"
    /\ rejection' = << [op |-> "text", reason |-> e] >>
    /\ UNCHANGED <<env, rendered, toolArg, bodyText, tool, messages, options, requests, response, json,
                   result, steps, toolOutput, stripVars, cliVars>>

\* lines 51-56: response.text() rejected; the placeholder stands for the body
TextRejects(e) ==
    /\ pc = "readingText"
    /\ error' = << StatusError(response[1], UnreadableBodyText) >>
    /\ pc' = "thrown"
    /\ rejection' = << [op |-> "text", reason |-> e] >>
    /\ UNCHANGED <<env, rendered, toolArg, bodyText, tool, messages, options, requests, response, json,
                   result, steps, toolOutput, stripVars, cliVars>>

\* treats an undecodable body as an empty answer
JsonRejects_emptyAnswer(e) ==
    /\ pc = "readingJson"
    /\ result' = << "\n" >>
    /\ pc' = "returned"
    /\ rejection' = << [op |-> "json", reason |-> e] >>
    /\ UNCHANGED <<env, rendered, toolArg, bodyText, tool, messages, options, requests, response, json,
                   error, steps, toolOutput, stripVars, cliVars>>

\* lines 62-69: response.json() rejected
JsonRejects(e) ==
    /\ pc = "readingJson"
    /\ error' = << JsonParseError(e) >>
    /\ pc' = "thrown"
    /\ rejection' = << [op |-> "json", reason |-> e] >>
    /\ UNCHANGED <<env, rendered, toolArg, bodyText, tool, messages, options, requests, response, json,
                   result, steps, toolOutput, stripVars, cliVars>>

\* what the tool callback returns (lookup.ts and answer.ts, line 34)
toolReturn(t, text) ==
    IF t \in { "lookup", "answer" }
    THEN << [content |-> << [type |-> "text", text |-> text] >>] >>
    ELSE <<>>

\* PerplexityResponse.parse in place of safeParse: a mismatch throws
JsonResolves_parseThrows(j) ==
    /\ pc = "readingJson"
    /\ json' = << j >>
    /\ steps' = Append(steps, "validate")
    /\ IF safeParse(j).success
       THEN /\ rendered' = combine(j)
            /\ result' = assemble(j)
            /\ pc' = "returned"
            /\ UNCHANGED error
       ELSE /\ error' = << [message |-> << "ZodError" >>, cause |-> <<>>] >>
            /\ pc' = "thrown"
            /\ UNCHANGED <<result, rendered>>
    /\ UNCHANGED <<env, toolArg, rejection, bodyText, tool, messages, options, requests, response,
                   toolOutput, stripVars, cliVars>>

\* lines 60 and 71-102: response.json() resolved; the answer is assembled and returned
JsonResolves(j) ==
    /\ pc = "readingJson"
    /\ json' = << j >>
    /\ rendered' = combine(j)
    /\ result' = assemble(j)
    /\ steps' = steps \o << "validate", "strip", "sources", "trim" >>
    /\ toolOutput' = toolReturn(tool, result')
    /\ pc' = "returned"
    /\ UNCHANGED <<env, toolArg, rejection, bodyText, tool, messages, options, requests, response, error,
                   stripVars, cliVars>>

(***************************************************************************)
(* The client: one invocation of performChatCompletion, from a tool or     *)
(* directly, with whatever the upstream service answers.                   *)
(***************************************************************************)
ClientIdle ==
    /\ pc = "idle"
    /\ tool = "none"
    /\ messages = <<>>
    /\ options = [model |-> "", system |-> "", searchContextSize |-> "low"]
    /\ requests = <<>>
    /\ response = <<>>
    /\ json = <<>>
    /\ result = <<>>
    /\ error = <<>>
    /\ steps = <<>>
    /\ rejection = <<>>
    /\ bodyText = <<>>
    /\ rendered = <<>>
    /\ toolArg = <<>>
    /\ toolOutput = <<>>

(***************************************************************************)
(* The entry point index.ts (lines 1-24) and runServer (server.ts).        *)
(***************************************************************************)
\* command-line arguments
Args == { "--version", "-v", "--help", "serve" }

Argvs == SeqsUpTo(Args, MaxArgs)

\* what runServer can reject with
ServerFailures == { [isError |-> TRUE, text |-> "stdin closed"] }

MissingKeyText == "Error: PERPLEXITY_API_KEY environment variable is required"

FatalErrorText == "Fatal error running server:"

ServerRunningText ==
    "Perplexity MCP Server running on stdio with Lookup and Answer tools"

\* the entry point has not run
CliNotLaunched ==
    /\ argv = <<>>
    /\ cliPc = "start"
    /\ exitCode = <<>>
    /\ console = <<>>

\* starts the server without the preflight check
Main_noPreflight ==
    /\ cliPc = "start"
    /\ cliPc' = "starting"
    /\ UNCHANGED <<argv, exitCode, console, env, stripVars, clientVars>>

\* lines 13-21: the preflight check of the key, then the call of runServer;
\* process.argv is not read
Main ==
    /\ cliPc = "start"
    /\ IF NoApiKey(env)
       THEN /\ console' = Append(console, [stream |-> "error", args |-> << MissingKeyText >>])
            /\ exitCode' = << 1 >>
            /\ cliPc' = "exited"
       ELSE /\ cliPc' = "starting"
            /\ UNCHANGED <<exitCode, console>>
    /\ UNCHANGED <<argv, stripVars, clientVars>>

\* runServer resolved: the server is connected (server.ts, runServer)
RunServerResolves ==
    /\ cliPc = "starting"
    /\ console' = Append(console, [stream |-> "error", args |-> << ServerRunningText >>])
    /\ cliPc' = "serving"
    /\ UNCHANGED <<argv, exitCode, stripVars, clientVars>>

\* lines 21-24: runServer rejected
RunServerRejects(e) ==
    /\ cliPc = "starting"
    /\ console' = Append(console, [stream |-> "error", args |-> << FatalErrorText, e.text >>])
    /\ exitCode' = << 1 >>
    /\ cliPc' = "exited"
    /\ UNCHANGED <<argv, stripVars, clientVars>>

CliInit ==
    /\ argv \in Argvs
    /\ env \in Envs
    /\ cliPc = "start"
    /\ exitCode = <<>>
    /\ console = <<>>
    /\ ClientIdle
    /\ input = <<>>
    /\ output = <<>>
    /\ called = FALSE
    /\ again = <<>>

CliNext ==
    \/ Main
    \/ RunServerResolves
    \/ \E e \in ServerFailures : RunServerRejects(e)

CliSpec == CliInit /\ [][CliNext]_vars

Init ==
    /\ env \in Envs
    /\ ClientIdle
    /\ CliNotLaunched
    /\ input = <<>>
    /\ output = <<>>
    /\ called = FALSE
    /\ again = <<>>

Next ==
    \/ \E q \in Queries : LookupTool(q)
    \/ \E q \in Queries : AnswerTool(q)
    \/ \E msgs \in DirectMessages, opts \in DirectOptions : DirectCall(msgs, opts)
    \/ \E e \in FetchFailures : FetchRejects(e)
    \/ \E head \in ResponseHeads : FetchResolves(head)
    \/ \E errorText \in ErrorTexts : TextResolves(errorText)
    \/ \E e \in TextFailures : TextRejects(e)
    \/ \E e \in JsonFailures : JsonRejects(e)
    \/ \E j \in Bodies : JsonResolves(j)

Spec == Init /\ [][Next]_vars

(***************************************************************************)
(* Direct calls of the exported stripThinkContent, as the unit tests make  *)
(* them.                                                                   *)
(***************************************************************************)
StripInit ==
    /\ input \in StripInputs
    /\ output = <<>>
    /\ called = FALSE
    /\ again = <<>>
    /\ env = [set |-> TRUE, val |-> "pplx-key"]
    /\ ClientIdle
    /\ CliNotLaunched

CallStrip ==
    /\ ~called
    /\ output' = stripThinkContent(input)
    /\ called' = TRUE
    /\ UNCHANGED <<input, again, clientVars, cliVars>>

\* the result of the first call is passed to stripThinkContent once more
CallStripAgain ==
    /\ called
    /\ again = <<>>
    /\ again' = << stripThinkContent(output) >>
    /\ UNCHANGED <<input, output, called, clientVars, cliVars>>

StripNext ==
    \/ CallStrip
    \/ CallStripAgain

StripSpec == StripInit /\ [][StripNext]_vars

(***************************************************************************)
(* Vocabulary of the properties: marker occurrences stated by position,    *)
(* independently of the scanning helpers above.                            *)
(***************************************************************************)
\* the 0-based positions at which marker m occurs in s
Occ(s, m) == { i \in 0..(Len(s) - Len(m)) : SubSeq(s, i + 1, i + Len(m)) = m }

MinOf(S) == CHOOSE x \in S : \A y \in S : x <= y

MaxOf(S) == CHOOSE x \in S : \A y \in S : y <= x

\* s has a start marker and its last end marker lies at or after the first start marker
HasCut(s) ==
    /\ Occ(s, open) # {}
    /\ Occ(s, close) # {}
    /\ MaxOf(Occ(s, close)) >= MinOf(Occ(s, open))

\* the text before the first start marker followed by the text after the last end marker
OutsideCut(s) ==
    SubSeq(s, 1, MinOf(Occ(s, open)))
        \o SubSeq(s, MaxOf(Occ(s, close)) + Len(close) + 1, Len(s))

(***************************************************************************)
(* C1: whenever the input has a start marker and its last end marker lies  *)
(* at or after the first start marker, stripThinkContent returns exactly   *)
(* the text before the first start marker followed by the text after the   *)
(* last end marker, every kept character verbatim; in particular           *)
(* "Before <think>reasoning content</think> After" gives "Before  After"   *)
(* with two spaces.                                                        *)
(***************************************************************************)
C1_CutFirstOpenToLastClose ==
    called =>
        /\ HasCut(input) => output = OutsideCut(input)
        /\ input = SimpleBlockInput => output = BeforeSp \o SpAfter

\* a stripped input with several start and end markers and text on both sides
C1_Witness ==
    /\ called
    /\ HasCut(input)
    /\ Cardinality(Occ(input, open)) >= 2
    /\ Cardinality(Occ(input, close)) >= 2
    /\ MinOf(Occ(input, open)) > 0
    /\ Len(output) > MinOf(Occ(input, open))
    /\ Len(output) < Len(input)

(***************************************************************************)
(* C2: an input with no start marker is returned unchanged, a stray end    *)
(* marker included.                                                        *)
(***************************************************************************)
C2_NoOpenIsIdentity ==
    (called /\ Occ(input, open) = {}) => output = input

\* a stripped input with a stray end marker and no start marker
C2_Witness ==
    /\ called
    /\ Occ(input, open) = {}
    /\ Occ(input, close) # {}
    /\ Occ(output, close) = Occ(input, close)

(***************************************************************************)
(* C3: an input with a start marker but with no end marker, or whose last  *)
(* end marker lies before the first start marker, is returned unchanged.   *)
(***************************************************************************)
C3_UnterminatedIsIdentity ==
    (called /\ Occ(input, open) # {} /\ ~HasCut(input)) => output = input

\* a stripped input whose only end markers lie before its first start marker
C3_Witness ==
    /\ called
    /\ Occ(input, open) # {}
    /\ Occ(input, close) # {}
    /\ MaxOf(Occ(input, close)) < MinOf(Occ(input, open))
    /\ Occ(output, open) # {}

Ended == pc \in { "returned", "thrown" }

\* the decoded body has the expected shape: built with every field of the
\* right type, and every source record with a string title and a string url
Validates(j) ==
    /\ j \in ShapedBodies
    /\ Has(j, "search_results") =>
           \A i \in 1..Len(j.f["search_results"].e) :
               j.f["search_results"].e[i] \in ValidSources

\* the content of the first choice's message, "" where any level is absent
ContentOfFirstChoice(j) ==
    IF /\ Has(j, "choices")
       /\ j.f["choices"].e # <<>>
       /\ Has(j.f["choices"].e[1], "message")
       /\ Has(j.f["choices"].e[1].f["message"], "content")
    THEN j.f["choices"].e[1].f["message"].f["content"].v
    ELSE <<>>

\* the source records of the body, none when search_results is absent
SourcesOf(j) ==
    IF Has(j, "search_results") THEN j.f["search_results"].e ELSE <<>>

\* what the stripper is specified to return for s
Stripped(s) == IF HasCut(s) THEN OutsideCut(s) ELSE s

\* the n-th citation line: "[n] title - url", then " (date)" for a non-empty date
NumberedLine(sr, n) ==
    <<"[", ToString(n), "]", " ">> \o sr.f["title"].v \o <<" ", "U+2014", " ">>
        \o sr.f["url"].v
        \o (IF Has(sr, "date") /\ Len(sr.f["date"].v) > 0
            THEN <<" ", "(">> \o sr.f["date"].v \o <<")">>
            ELSE <<>>)

\* the lines 1..n of the sources, each ended by a newline except the last
RECURSIVE NumberedLines(_, _)
NumberedLines(srcs, n) ==
    IF n = 0 THEN <<>>
    ELSE IF n = 1 THEN NumberedLine(srcs[1], 1)
    ELSE NumberedLines(srcs, n - 1) \o <<"\n">> \o NumberedLine(srcs[n], n)

\* the stripped content, followed by the Sources section when there are sources
Combined(j) ==
    Stripped(ContentOfFirstChoice(j))
        \o (IF SourcesOf(j) # <<>>
            THEN <<"\n", "\n", "S", "o", "u", "r", "c", "e", "s", ":", "\n">>
                     \o NumberedLines(SourcesOf(j), Len(SourcesOf(j)))
            ELSE <<>>)

IsSpace(c) == c \in { " ", "\n", "\t", "\r" }

\* t is s without its leading and trailing white space
IsTrimOf(t, s) ==
    /\ t # <<>> => ~IsSpace(t[1]) /\ ~IsSpace(t[Len(t)])
    /\ \E i \in 0..Len(s) :
           /\ i + Len(t) <= Len(s)
           /\ t = SubSeq(s, i + 1, i + Len(t))
           /\ \A k \in 1..i : IsSpace(s[k])
           /\ \A k \in (i + Len(t) + 1)..Len(s) : IsSpace(s[k])

\* {choices:[{message:{content:"<think>x</think>Answer"}}],
\*  search_results:[{title:"A",url:"http://a"}]}
ExampleBody ==
    JObj([choices |->
              JArr(<< JObj([message |-> JObj([content |-> JStr(ExampleContent)])]) >>),
          search_results |-> JArr(<< SrcA >>)])

\* "Answer\n\nSources:\n[1] A - http://a\n", the dash being U+2014
ExampleResult ==
    <<"A", "n", "s", "w", "e", "r", "\n", "\n",
      "S", "o", "u", "r", "c", "e", "s", ":", "\n",
      "[", "1", "]", " ", "A", " ", "U+2014", " ",
      "h", "t", "t", "p", ":", "/", "/", "a", "\n">>

(***************************************************************************)
(* C5: for a success-status response whose body decodes and validates,     *)
(* performChatCompletion returns trim(strip(content of the first choice)   *)
(* + the Sources section when search_results is non-empty) + "\n"; for     *)
(* content "<think>x</think>Answer" and the one source {title "A", url     *)
(* "http://a"} that is exactly "Answer\n\nSources:\n[1] A - http://a\n".   *)
(***************************************************************************)
C5_ReturnsTrimmedStrippedWithSources ==
    (Ended /\ json # <<>> /\ Validates(json[1])) =>
        /\ pc = "returned"
        /\ Len(result) >= 1
        /\ result[Len(result)] = "\n"
        /\ IsTrimOf(SubSeq(result, 1, Len(result) - 1), Combined(json[1]))
        /\ json[1] = ExampleBody => result = ExampleResult

\* the example response has been answered
C5_Witness ==
    /\ pc = "returned"
    /\ response # <<>>
    /\ response[1].status = 200
    /\ json = << ExampleBody >>
    /\ Len(result) > 1

(***************************************************************************)
(* C6: when PERPLEXITY_API_KEY is not available at call time, the          *)
(* invocation fails with the configuration error and no outbound request   *)
(* is ever issued in it.                                                   *)
(***************************************************************************)
C6_NoKeyNoRequest ==
    ((~env.set \/ env.val = "") /\ pc # "idle") =>
        /\ pc = "thrown"
        /\ error =
               << [message |->
                       << "PERPLEXITY_API_KEY is not set. Please export it before calling performChatCompletion()." >>,
                   cause |-> <<>>] >>
        /\ requests = <<>>
        /\ response = <<>>
        /\ result = <<>>

\* a tool call made with the variable unset has failed
C6_Witness ==
    /\ ~env.set
    /\ tool = "lookup"
    /\ pc = "thrown"
    /\ error # <<>>

(***************************************************************************)
(* C7: when the response status is outside the success range, the          *)
(* invocation fails with an error that holds the status code, the status   *)
(* text and the response body text; when reading the body fails, the       *)
(* placeholder text stands for the body and the status error is still the  *)
(* error raised.                                                           *)
(***************************************************************************)
C7_StatusErrorCarriesStatusAndBody ==
    (Ended /\ response # <<>> /\ response[1].status \notin 200..299) =>
        /\ pc = "thrown"
        /\ result = <<>>
        /\ bodyText # <<>> \/ (rejection # <<>> /\ rejection[1].op = "text")
        /\ error =
               << [message |->
                       << "Perplexity API error: ",
                          ToString(response[1].status), " ",
                          response[1].statusText, "\n",
                          IF bodyText # <<>> THEN bodyText[1]
                          ELSE "Unable to parse error response" >>,
                   cause |-> <<>>] >>

\* a non-success response whose body could not be read has been reported
C7_Witness ==
    /\ pc = "thrown"
    /\ response # <<>>
    /\ response[1].status = 429
    /\ rejection # <<>>
    /\ rejection[1].op = "text"
    /\ bodyText = <<>>

(***************************************************************************)
(* C8: when the outbound network call itself fails, the invocation fails   *)
(* with an error that names a network failure and wraps the underlying     *)
(* cause; no later step (status check, JSON decode, validation, assembly)  *)
(* runs and no string is returned.                                         *)
(***************************************************************************)
C8_TransportErrorWrapsCause ==
    (rejection # <<>> /\ rejection[1].op = "fetch") =>
        /\ pc = "thrown"
        /\ error =
               << [message |->
                       << "Network error while calling Perplexity API: ",
                          rejection[1].reason.text >>,
                   cause |-> << rejection[1].reason >>] >>
        /\ steps = << "credential", "fetch" >>
        /\ response = <<>>
        /\ bodyText = <<>>
        /\ json = <<>>
        /\ result = <<>>
        /\ toolOutput = <<>>

\* fetch has rejected with a value that is not an Error, in an answer tool call
C8_Witness ==
    /\ rejection # <<>>
    /\ rejection[1].op = "fetch"
    /\ ~rejection[1].reason.isError
    /\ tool = "answer"
    /\ Len(requests) = 1

(***************************************************************************)
(* C9: when the body of a success-status response cannot be decoded as     *)
(* JSON, the invocation fails with a parse error that wraps the underlying *)
(* cause; it is not the status error and it is not an empty answer.        *)
(***************************************************************************)
C9_ParseErrorWrapsCause ==
    (rejection # <<>> /\ rejection[1].op = "json") =>
        /\ pc = "thrown"
        /\ response # <<>>
        /\ response[1].status \in 200..299
        /\ error =
               << [message |->
                       << "Failed to parse JSON response from Perplexity API: ",
                          rejection[1].reason.text >>,
                   cause |-> << rejection[1].reason >>] >>
        /\ error[1].message[1] # "Perplexity API error: "
        /\ result = <<>>
        /\ toolOutput = <<>>

\* response.json() has rejected on a 200 response
C9_Witness ==
    /\ rejection # <<>>
    /\ rejection[1].op = "json"
    /\ rejection[1].reason.isError
    /\ response # <<>>
    /\ response[1].status = 200
    /\ Ended

(***************************************************************************)
(* C10: when the body of a success-status response decodes as JSON but     *)
(* does not match the expected shape, the invocation does not raise: it    *)
(* returns exactly "\n".                                                   *)
(***************************************************************************)
C10_MismatchReturnsNewline ==
    (json # <<>> /\ ~Validates(json[1])) =>
        /\ pc = "returned"
        /\ error = <<>>
        /\ result = << "\n" >>

\* a body whose choices field is a string has been answered
C10_Witness ==
    /\ json # <<>>
    /\ json[1].t = "object"
    /\ Has(json[1], "choices")
    /\ json[1].f["choices"].t = "string"
    /\ pc = "returned"

(***************************************************************************)
(* C11: when a valid response has no choices field at all, the invocation  *)
(* still succeeds: it returns "\n" when there are no sources, and          *)
(* otherwise just the Sources section, starting with "Sources:" with no    *)
(* leading blank lines and trimmed like every result, then one newline.    *)
(***************************************************************************)
\* "Sources:\n" and the numbered lines of the body's sources
SourcesBlock(j) ==
    <<"S", "o", "u", "r", "c", "e", "s", ":", "\n">>
        \o NumberedLines(SourcesOf(j), Len(SourcesOf(j)))

C11_NoChoicesStillSucceeds ==
    (json # <<>> /\ Validates(json[1]) /\ ~Has(json[1], "choices")) =>
        /\ pc = "returned"
        /\ error = <<>>
        /\ IF SourcesOf(json[1]) = <<>>
           THEN result = << "\n" >>
           ELSE /\ Len(result) > Len(<<"S", "o", "u", "r", "c", "e", "s", ":">>)
                /\ SubSeq(result, 1, 8) = <<"S", "o", "u", "r", "c", "e", "s", ":">>
                /\ result[Len(result)] = "\n"
                /\ IsTrimOf(SubSeq(result, 1, Len(result) - 1), SourcesBlock(json[1]))
                /\ ~IsSpace(SourcesBlock(json[1])[Len(SourcesBlock(json[1]))])
                       => result = SourcesBlock(json[1]) \o << "\n" >>

\* a body with two sources and no choices field has been answered
C11_Witness ==
    /\ pc = "returned"
    /\ json # <<>>
    /\ json[1].t = "object"
    /\ ~Has(json[1], "choices")
    /\ Has(json[1], "search_results")
    /\ json[1].f["search_results"].e = << SrcA, SrcDated >>

(***************************************************************************)
(* C12: for a non-empty search_results the text appended to the answer is  *)
(* a blank line, the "Sources:" header and one line per source in the      *)
(* order received, the n-th (from 1) being "[n] <title> - <url>" and its   *)
(* date suffix; for an empty or absent search_results nothing is appended, *)
(* no header either.                                                       *)
(***************************************************************************)
C12_SourcesBlockNumberedInOrder ==
    (json # <<>> /\ Validates(json[1])) =>
        LET answer == Stripped(ContentOfFirstChoice(json[1]))
        IN  IF SourcesOf(json[1]) # <<>>
            THEN rendered = answer \o << "\n", "\n" >> \o SourcesBlock(json[1])
            ELSE rendered = answer

\* an answer followed by two sources has been rendered
C12_Witness ==
    /\ pc = "returned"
    /\ json # <<>>
    /\ Validates(json[1])
    /\ ContentOfFirstChoice(json[1]) = ExampleContent
    /\ SourcesOf(json[1]) = << SrcDated, SrcA >>
    /\ Len(rendered) > Len(ExampleContent)

(***************************************************************************)
(* Vocabulary of the citation lines: the lines of the rendered Sources     *)
(* section, read back from the text.                                       *)
(***************************************************************************)
\* the pieces of s between newlines
RECURSIVE SplitLines(_)
SplitLines(s) ==
    IF \A k \in 1..Len(s) : s[k] # "\n" THEN << s >>
    ELSE LET k == CHOOSE i \in 1..Len(s) :
                      s[i] = "\n" /\ \A h \in 1..(i - 1) : s[h] # "\n"
         IN  << SubSeq(s, 1, k - 1) >> \o SplitLines(SubSeq(s, k + 1, Len(s)))

\* the citation lines of the rendered text: what follows "\n\nSources:\n"
RenderedLines(j) ==
    SplitLines(SubSeq(rendered,
                      Len(Stripped(ContentOfFirstChoice(j))) + 12,
                      Len(rendered)))

\* "[n] title - url", the dash being U+2014
LineBase(sr, n) ==
    <<"[", ToString(n), "]", " ">> \o sr.f["title"].v \o <<" ", "U+2014", " ">>
        \o sr.f["url"].v

\* " (date)"
InParens(date) == <<" ", "(">> \o date \o <<")">>

\* a validated body with sources has been rendered
SourcesRendered ==
    /\ json # <<>>
    /\ Validates(json[1])
    /\ SourcesOf(json[1]) # <<>>

(***************************************************************************)
(* C13 as stated: the suffix " (<date>)" is appended exactly when the date *)
(* field is present, for every string value of date; last_updated never    *)
(* influences the line.                                                    *)
(***************************************************************************)
C13_Original_SuffixWhenPresent ==
    SourcesRendered =>
        /\ Len(RenderedLines(json[1])) = Len(SourcesOf(json[1]))
        /\ \A n \in 1..Len(SourcesOf(json[1])) :
               LET sr == SourcesOf(json[1])[n]
               IN  RenderedLines(json[1])[n] =
                       IF Has(sr, "date")
                       THEN LineBase(sr, n) \o InParens(sr.f["date"].v)
                       ELSE LineBase(sr, n)

(***************************************************************************)
(* C13 as amended: the suffix " (<date>)" is appended exactly when the     *)
(* date field is present and not the empty string; last_updated never      *)
(* influences the line; {title "T", url "U", date "2024"} renders as       *)
(* "[1] T - U (2024)".                                                     *)
(***************************************************************************)
C13_SuffixWhenDateNonEmpty ==
    SourcesRendered =>
        /\ Len(RenderedLines(json[1])) = Len(SourcesOf(json[1]))
        /\ \A n \in 1..Len(SourcesOf(json[1])) :
               LET sr == SourcesOf(json[1])[n]
               IN  RenderedLines(json[1])[n] =
                       IF Has(sr, "date") /\ sr.f["date"].v # <<>>
                       THEN LineBase(sr, n) \o InParens(sr.f["date"].v)
                       ELSE LineBase(sr, n)
        /\ SourcesOf(json[1])[1] = SrcDated =>
               RenderedLines(json[1])[1] =
                   <<"[", "1", "]", " ", "T", " ", "U+2014", " ", "U",
                     " ", "(", "2", "0", "2", "4", ")">>

\* a dated source and one that has only last_updated have been rendered
C13_Witness ==
    /\ pc = "returned"
    /\ SourcesRendered
    /\ SourcesOf(json[1]) = << SrcDated, SrcUpdated >>
    /\ Len(RenderedLines(json[1])) = 2

(***************************************************************************)
(* C14: every returned string is T followed by "\n", where T has no        *)
(* leading and no trailing white space; it is exactly "\n" when the        *)
(* combined text is empty or white space only.                             *)
(***************************************************************************)
C14_TrimmedWithOneNewline ==
    pc = "returned" =>
        /\ Len(result) >= 1
        /\ result[Len(result)] = "\n"
        /\ LET T == SubSeq(result, 1, Len(result) - 1)
           IN  /\ T # <<>> => ~IsSpace(T[1]) /\ ~IsSpace(T[Len(T)])
               /\ IsTrimOf(T, rendered)
        /\ (\A k \in 1..Len(rendered) : IsSpace(rendered[k])) => result = << "\n" >>

\* a text with white space at both ends has been trimmed and returned
C14_Witness ==
    /\ pc = "returned"
    /\ Len(rendered) > Len(result)
    /\ Len(result) > 1
    /\ IsSpace(rendered[1])
    /\ IsSpace(rendered[Len(rendered)])

C16_SystemMessageThenCallerMessages ==
    \A i \in 1..Len(requests) :
        LET sent == requests[i].body.messages
        IN  /\ Len(sent) = Len(messages) + 1
            /\ sent[1] = [role |-> "system", content |-> options.system]
            /\ \A k \in 1..Len(messages) : sent[k + 1] = messages[k]
            /\ requests[i].body.web_search_options.search_context_size
                   = options.searchContextSize

\* a request carrying three caller messages has been sent
C16_Witness ==
    /\ Len(requests) = 1
    /\ tool = "direct"
    /\ Len(messages) = 3
    /\ options.searchContextSize = "low"

(***************************************************************************)
(* C17: internal reasoning is never exposed to the MCP client: whenever    *)
(* the upstream message content contains a "<think>" start marker, the     *)
(* answer part of the text a tool returns contains no "<think>" marker.    *)
(***************************************************************************)
\* the text a tool returned, up to the Sources section when there is one
AnswerPart(j) ==
    LET text == toolOutput[1].content[1].text
        header == <<"S", "o", "u", "r", "c", "e", "s", ":", "\n">>
    IN  IF SourcesOf(j) # <<>> /\ Occ(text, header) # {}
        THEN SubSeq(text, 1, MinOf(Occ(text, header)))
        ELSE text

C17_NoThinkMarkerReachesClient ==
    (/\ toolOutput # <<>>
     /\ json # <<>>
     /\ Validates(json[1])
     /\ Occ(ContentOfFirstChoice(json[1]), open) # {}) =>
        Occ(AnswerPart(json[1]), open) = {}


(***************************************************************************)
(* C18: started with --version or -v, the entry point prints the package   *)
(* version with console.log and exits with code 0, whether or not          *)
(* PERPLEXITY_API_KEY is set: once the entry point has run, the only       *)
(* console call is the version and the process has exited with 0, without  *)
(* the credential report and without the server being started.             *)
(***************************************************************************)
VersionFlags == { "--version", "-v" }

HasVersionFlag == \E i \in 1..Len(argv) : argv[i] \in VersionFlags

PackageVersion == "packageJson.version"

C18_VersionFlagPrintsVersionAndExitsZero ==
    (HasVersionFlag /\ cliPc # "start") =>
        /\ cliPc = "exited"
        /\ exitCode = << 0 >>
        /\ console = << [stream |-> "log", args |-> << PackageVersion >>] >>

(***************************************************************************)
(* C19: started without a version flag and with PERPLEXITY_API_KEY unset   *)
(* (or empty), the entry point reports "Error: PERPLEXITY_API_KEY          *)
(* environment variable is required" on console.error and exits with code  *)
(* 1; runServer is never reached.                                          *)
(***************************************************************************)
KeyMissing == ~env.set \/ env.val = ""

C19_MissingKeyExitsOneWithoutServer ==
    (~HasVersionFlag /\ KeyMissing) =>
        /\ cliPc \in { "start", "exited" }
        /\ cliPc = "exited" =>
              /\ exitCode = << 1 >>
              /\ console =
                   << [stream |-> "error",
                       args |-> << "Error: PERPLEXITY_API_KEY environment variable is required" >>] >>

C19_Witness ==
    /\ argv = << "serve" >>
    /\ ~env.set
    /\ cliPc = "exited"
    /\ exitCode = << 1 >>
    /\ Len(console) = 1

(***************************************************************************)
(* C20: each tool calls performChatCompletion with exactly one user-role   *)
(* message whose content is the tool's parameter, and with its fixed       *)
(* configuration (lookup: sonar-pro, medium, the lookup system prompt;     *)
(* answer: sonar-reasoning-pro, high, the answer system prompt); when the  *)
(* call returns, the tool's output is one text item holding the returned   *)
(* string unchanged.                                                       *)
(***************************************************************************)
FixedConfiguration(t) ==
    IF t = "lookup"
    THEN [model |-> "sonar-pro", system |-> "LOOKUP_SYSTEM_PROMPT",
          searchContextSize |-> "medium"]
    ELSE [model |-> "sonar-reasoning-pro", system |-> "ANSWER_SYSTEM_PROMPT",
          searchContextSize |-> "high"]

C20_ToolsWrapParameterWithFixedConfiguration ==
    (tool \in { "lookup", "answer" } /\ pc # "idle") =>
        /\ Len(toolArg) = 1
        /\ Len(messages) = 1
        /\ messages[1] = [role |-> "user", content |-> toolArg[1]]
        /\ options = FixedConfiguration(tool)
        /\ pc = "returned" =>
              /\ Len(toolOutput) = 1
              /\ Len(toolOutput[1].content) = 1
              /\ toolOutput[1].content[1] = [type |-> "text", text |-> result]
        /\ pc # "returned" => toolOutput = <<>>

C20_Witness ==
    /\ tool = "lookup"
    /\ pc = "returned"
    /\ toolArg = << "Zod or Valibot?" >>
    /\ options.model = "sonar-pro"
    /\ toolOutput # <<>>
    /\ Len(result) > 1

(***************************************************************************)
(* C21: when the decoded body has a search_results array and one of its    *)
(* source records lacks a string title or a string url, the whole response *)
(* fails validation: the invocation does not raise and returns exactly     *)
(* "\n", whatever answer content the body carries.                         *)
(***************************************************************************)
LacksTitleOrUrl(sr) ==
    \/ sr.t # "object"
    \/ ~("title" \in DOMAIN sr.f /\ sr.f["title"].t = "string")
    \/ ~("url" \in DOMAIN sr.f /\ sr.f["url"].t = "string")

HasBadSource(j) ==
    /\ j.t = "object"
    /\ "search_results" \in DOMAIN j.f
    /\ j.f["search_results"].t = "array"
    /\ \E i \in 1..Len(j.f["search_results"].e) :
           LacksTitleOrUrl(j.f["search_results"].e[i])

C21_BadSourceDiscardsAnswer ==
    (json # <<>> /\ HasBadSource(json[1])) =>
        /\ pc = "returned"
        /\ error = <<>>
        /\ result = << "\n" >>

\* an answer with content, one good source and one without a title
C21_Witness ==
    /\ json # <<>>
    /\ HasBadSource(json[1])
    /\ "choices" \in DOMAIN json[1].f
    /\ ContentOfFirstChoice(json[1]) = ExampleContent
    /\ json[1].f["search_results"].e = << SrcA, SrcNoTitle >>
    /\ result = << "\n" >>

(***************************************************************************)
(* C22: stripThinkContent is idempotent: applied to its own result it      *)
(* returns that result unchanged; the text kept before the cut joined with *)
(* the text kept after it never holds a start marker with an end marker at *)
(* or after it, so a second pass finds nothing to remove.                  *)
(***************************************************************************)
C22_StripIsIdempotent ==
    /\ again # <<>> => again[1] = output
    /\ called =>
          ~\E i \in Occ(output, open) : \E k \in Occ(output, close) : k >= i

\* the join of the kept parts formed a start marker, and the second call left it
C22_Witness ==
    /\ again # <<>>
    /\ HasCut(input)
    /\ Occ(output, open) # {}
    /\ MinOf(Occ(output, open)) < MinOf(Occ(input, open))
    /\ again[1] = output

(***************************************************************************)
(* C23: the stripper acts on the message content only, before the          *)
(* citations are appended: for a valid body with sources, the text handed  *)
(* to the final trim ends with the whole Sources section, every character  *)
(* of every citation line in place, and every citation line but the last   *)
(* (whose trailing white space the trim may take) stands whole in the      *)
(* returned text; this holds when a title or url contains "<think>" or     *)
(* "</think>" and the content has an unmatched start marker.               *)
(***************************************************************************)
EndsWith(s, t) ==
    /\ Len(s) >= Len(t)
    /\ SubSeq(s, Len(s) - Len(t) + 1, Len(s)) = t

C23_CitationsUntouchedByStripper ==
    (json # <<>> /\ Validates(json[1]) /\ SourcesOf(json[1]) # <<>>) =>
        LET srcs == SourcesOf(json[1])
        IN  /\ EndsWith(rendered, SourcesBlock(json[1]))
            /\ \A n \in 1..(Len(srcs) - 1) :
                   Occ(result, NumberedLine(srcs[n], n) \o << "\n" >>) # {}
            /\ \A n \in 1..Len(srcs) :
                   Occ(rendered, NumberedLine(srcs[n], n)) # {}

\* an unmatched start marker in the content, markers in a title and a url
C23_Witness ==
    /\ pc = "returned"
    /\ json # <<>>
    /\ Validates(json[1])
    /\ ContentOfFirstChoice(json[1]) = open \o << "x" >>
    /\ SourcesOf(json[1]) = << SrcMarkers, SrcA >>
    /\ Occ(result, open \o <<" ", "U+2014", " ">> \o close) # {}

(***************************************************************************)
(* C24: the failure checks run in the order credential, transport, status, *)
(* JSON decode, and the first one that fails determines the error: a       *)
(* missing key is reported before any call, a transport failure before any *)
(* response is seen, and a non-success response is always reported as a    *)
(* status error, its body read as text and never JSON-decoded, so it never *)
(* yields a parse error whatever its body.                                 *)
(***************************************************************************)
IsPrefixOf(a, b) == Len(a) <= Len(b) /\ SubSeq(b, 1, Len(a)) = a

ErrorKind ==
    LET head == error[1].message[1]
    IN  IF head = "PERPLEXITY_API_KEY is not set. Please export it before calling performChatCompletion()."
        THEN "credential"
        ELSE IF head = "Network error while calling Perplexity API: " THEN "transport"
        ELSE IF head = "Perplexity API error: " THEN "status"
        ELSE IF head = "Failed to parse JSON response from Perplexity API: " THEN "decode"
        ELSE "other"

NonSuccess == response # <<>> /\ response[1].status \notin 200..299

C24_FirstFailingCheckDecides ==
    /\ \/ IsPrefixOf(steps, << "credential", "fetch", "status", "text" >>)
       \/ IsPrefixOf(steps, << "credential", "fetch", "status", "json", "validate",
                              "strip", "sources", "trim" >>)
    /\ NonSuccess =>
          /\ pc \in { "readingText", "thrown" }
          /\ json = <<>>
          /\ \A k \in 1..Len(steps) : steps[k] \notin { "json", "validate" }
          /\ rejection # <<>> => rejection[1].op = "text"
    /\ pc = "thrown" =>
          /\ error # <<>>
          /\ ErrorKind =
                IF KeyMissing THEN "credential"
                ELSE IF response = <<>> THEN "transport"
                ELSE IF NonSuccess THEN "status"
                ELSE "decode"
          /\ ErrorKind = "credential" => requests = <<>> /\ rejection = <<>>
          /\ ErrorKind = "transport" => rejection # <<>> /\ rejection[1].op = "fetch"
          /\ ErrorKind = "decode" => rejection # <<>> /\ rejection[1].op = "json"

\* a non-success response whose body is not JSON has been reported
C24_Witness ==
    /\ pc = "thrown"
    /\ NonSuccess
    /\ bodyText = << "<html>Bad Gateway</html>" >>
    /\ ErrorKind = "status"
    /\ steps = << "credential", "fetch", "status", "text" >>
=============================================================================
